---------------------------- MODULE Spec2Model ----------------------------
(***************************************************************************)
(* Model of colabdesign/af/prep.py: structure loading (prep_pdb, add_cb),  *)
(* residue-index replication (repeat_idx), fixed-size padding              *)
(* (make_fixed_size) and the four protocol assemblies of _af_prep.         *)
(*                                                                         *)
(* Tensors are modelled by what the claims observe of them: a residue      *)
(* index is a sequence of integers, an atom mask a sequence of 0/1 per     *)
(* atom slot, a feature tensor in the padder its shape and its identity.   *)
(***************************************************************************)
EXTENDS Integers, Sequences, FiniteSets, TLC

VARIABLES
  pc,      \* position of the call under study: "start" or "done"; for an
           \* _af_prep object "prepare" before the call and "called" after
  args,    \* arguments of the call under study, as passed; for an _af_prep
           \* object the record of the earlier call, if any
  batch,   \* add_cb: the batch dict, mutated in place
  o,       \* prep_pdb: the returned value (or the exception raised)
  feat,    \* make_fixed_size: the caller's feature dict, passed by reference
  ret,     \* make_fixed_size: the returned dict (or the exception raised)
  self,    \* _af_prep: the owning object's attributes
  heap,    \* _af_prep: the dict objects reachable from self.opt and self._opt
  cfg,     \* the runner's configuration (cfg.data.eval / cfg.data.common)
  call     \* _af_prep: the last handler called, its arguments and outcome

vars == <<pc, args, batch, o, feat, ret, self, heap, cfg, call>>

None == "None"
Idle == "idle"

-----------------------------------------------------------------------------
(* Generic helpers standing for numpy primitives                           *)

RECURSIVE SeqSum(_)
SeqSum(s) == IF s = <<>> THEN 0 ELSE Head(s) + SeqSum(Tail(s))

\* np.cumsum
CumSum(s) == [i \in 1..Len(s) |-> SeqSum(SubSeq(s, 1, i))]

\* np.repeat(s, n): every element n times, in order
Repeat(s, n) == [i \in 1..(Len(s) * n) |-> s[((i - 1) \div n) + 1]]

\* np.tile(s, n): the whole sequence n times
Tile(s, n) == [i \in 1..(Len(s) * n) |-> s[((i - 1) % Len(s)) + 1]]

\* np.arange(n)
Arange(n) == [i \in 1..n |-> i - 1]

\* x[mask]: boolean-mask selection, order preserved
RECURSIVE Select(_, _)
Select(s, keep) ==
  IF s = <<>> THEN <<>>
  ELSE (IF Head(keep) THEN <<Head(s)>> ELSE <<>>) \o Select(Tail(s), Tail(keep))

\* np.concatenate of a sequence of sequences
RECURSIVE Concat(_)
Concat(ss) == IF ss = <<>> THEN <<>> ELSE Head(ss) \o Concat(Tail(ss))

SeqMax(s) == CHOOSE x \in {s[i] : i \in 1..Len(s)} : \A j \in 1..Len(s) : s[j] <= x
SeqMin(s) == CHOOSE x \in {s[i] : i \in 1..Len(s)} : \A j \in 1..Len(s) : x <= s[j]

\* all sequences over S of length lo..hi
SeqsOf(S, lo, hi) == UNION {[1..n -> S] : n \in lo..hi}

-----------------------------------------------------------------------------
(* prep_pdb.add_cb                                                         *)

\* residue_constants.atom_order restricted to the four slots add_cb touches;
\* mask columns are numbered from 0 as in the code
atom_order == [N |-> 0, CA |-> 1, C |-> 2, CB |-> 3]

\* m[..., k] of one residue's mask row (a 1-based sequence)
Col(m, k) == m[k + 1]

\* a variant that sums the N, CA, C mask columns instead of multiplying them
CbMaskAny(m) ==
  Col(m, atom_order.N) + Col(m, atom_order.CA) + Col(m, atom_order.C)

\* np.prod of the N, CA, C mask columns
cb_mask(m) ==
  Col(m, atom_order.N) * Col(m, atom_order.CA) * Col(m, atom_order.C)

\* One residue of add_cb: the CB position is kept where it was resolved and
\* taken from _np_get_cb otherwise; the CB mask is (m[cb] + cb_mask) > 0.
AddCbRes(r) ==
  LET m  == r.mask
      cb == atom_order.CB
  IN [r EXCEPT
        !.cb_pos = IF Col(m, cb) = 1 THEN r.cb_pos ELSE "computed",
        !.mask   = [m EXCEPT ![cb + 1] = IF Col(m, cb) + cb_mask(m) > 0 THEN 1 ELSE 0]]

add_cb(b) == [i \in 1..Len(b) |-> AddCbRes(b[i])]

-----------------------------------------------------------------------------
(* prep_pdb                                                                *)

\* protein.from_pdb_string(..., chain_id): the residues of the chains whose
\* identifier is chain_id, in file order; every chain when chain_id is None
FromPdbString(file, chain_id) ==
  Concat([i \in 1..Len(file.chains) |->
            IF chain_id = None \/ file.chains[i].id = chain_id
            THEN file.chains[i].residues ELSE <<>>])

\* the batch dict built from protein_obj: aatype, positions (CB only), mask
BatchOf(residues) ==
  [i \in 1..Len(residues) |->
     [aatype |-> residues[i].aatype, mask |-> residues[i].mask,
      cb_pos |-> residues[i].cb_pos]]

\* last = residue_index[-1] + 50
NextLast(residue_index) == residue_index[Len(residue_index)] + 50

\* has_ca = batch["all_atom_mask"][:, 0] == 1
HasCa(b) == [i \in 1..Len(b) |-> Col(b[i].mask, 0) = 1]

\* what one chain contributes (lines 255-272): kept is its batch and native
\* its residue numbers, both restricted to has_ca
ChainPart(kept, native, chain, last, for_alphafold) ==
  [batch |-> kept,
   residue_index |-> [i \in 1..Len(native) |-> native[i] + last],
   template_features |->
     IF for_alphafold
     THEN [i \in 1..Len(kept) |->
             [template_aatype |-> kept[i].aatype,
              template_all_atom_masks |-> kept[i].mask]]
     ELSE <<>>,
   residue |-> native,
   chain |-> [i \in 1..Len(native) |-> chain]]

\* lines 250-253: b is the chain's batch after add_cb
KeepCa(residues, b, chain, last, for_alphafold) ==
  ChainPart(Select(b, HasCa(b)),
            Select([i \in 1..Len(residues) |-> residues[i].num], HasCa(b)),
            chain, last, for_alphafold)

\* lines 245-250
LoadChain(residues, chain, last, for_alphafold) ==
  KeepCa(residues, add_cb(BatchOf(residues)), chain, last, for_alphafold)

\* The loop over the requested chains (lines 244-272), from chain k on; acc
\* is the list o plus residue_idx and chain_idx.  A chain with no retained
\* residue makes residue_index[-1] raise IndexError.
RECURSIVE PdbLoop(_, _, _, _, _, _)
RECURSIVE PdbStep(_, _, _, _, _, _)
PdbStep(file, chains, k, for_alphafold, acc, part) ==
  IF part.residue = <<>> THEN [err |-> "IndexError", parts |-> acc]
  ELSE PdbLoop(file, chains, k + 1, NextLast(part.residue_index),
               for_alphafold, Append(acc, part))

PdbLoop(file, chains, k, last, for_alphafold, acc) ==
  IF k > Len(chains) THEN [err |-> None, parts |-> acc]
  ELSE PdbStep(file, chains, k, for_alphafold, acc,
               LoadChain(FromPdbString(file, chains[k]), chains[k], last,
                         for_alphafold))

PdbError(e) ==
  [err |-> e, batch |-> <<>>, residue_index |-> <<>>, template_features |-> None,
   idx |-> [residue |-> <<>>, chain |-> <<>>], chain_len |-> <<>>]

\* lines 274-283: the chains' parts concatenated.  chain_len records how
\* many residues each requested chain contributed (derivable from idx.chain
\* when the requested chains are distinct).
PdbResult(r, for_alphafold) ==
  IF r.err # None THEN PdbError(r.err)
  ELSE
    [err |-> None,
     batch |-> Concat([i \in 1..Len(r.parts) |-> r.parts[i].batch]),
     residue_index |->
       Concat([i \in 1..Len(r.parts) |-> r.parts[i].residue_index]),
     template_features |->
       IF for_alphafold
       THEN [template_domain_names |-> <<"None">>,
             rows |-> <<Concat([i \in 1..Len(r.parts) |->
                                  r.parts[i].template_features])>>]
       ELSE None,
     idx |-> [residue |-> Concat([i \in 1..Len(r.parts) |-> r.parts[i].residue]),
              chain |-> Concat([i \in 1..Len(r.parts) |-> r.parts[i].chain])],
     chain_len |-> [i \in 1..Len(r.parts) |-> Len(r.parts[i].residue_index)]]

\* prep_pdb(pdb_filename, chain, for_alphafold).  chain is None or the list
\* chain.split(",") yields.
prep_pdb(file, chain, for_alphafold) ==
  IF ~file.exists THEN PdbError("StructureNotFound")
  ELSE PdbResult(PdbLoop(file, IF chain = None THEN <<None>> ELSE chain,
                         1, 0, for_alphafold, <<>>),
                 for_alphafold)

-----------------------------------------------------------------------------
(* Specification SpecCb: add_cb applied to every batch of up to MaxCbRes   *)
(* residues, each with any resolved/unresolved pattern over N, CA, C, CB   *)

MaxCbRes == 2

Masks == [1..4 -> {0, 1}]

\* a parsed residue: an unresolved atom has zero coordinates
CbResidues ==
  {[aatype |-> 0, mask |-> m,
    cb_pos |-> IF Col(m, atom_order.CB) = 1 THEN "native" ELSE "zero"] : m \in Masks}

InitCb ==
  /\ pc = "start"
  /\ batch \in SeqsOf(CbResidues, 1, MaxCbRes)
  /\ args = batch
  /\ o = Idle /\ feat = Idle /\ ret = Idle
  /\ self = Idle /\ heap = Idle /\ cfg = Idle /\ call = Idle

AddCb ==
  /\ pc = "start"
  /\ batch' = add_cb(batch)
  /\ pc' = "done"
  /\ UNCHANGED <<args, o, feat, ret, self, heap, cfg, call>>

NextCb == AddCb

SpecCb == InitCb /\ [][NextCb]_vars

Resolved(m, a) == Col(m, atom_order[a]) = 1

\* C6 as stated: after add_cb, CB is marked resolved exactly when it was
\* already resolved or at least one of N, CA, C was resolved.
C6_AnyBackbone ==
  pc = "done" =>
    \A i \in 1..Len(batch) :
      Resolved(batch[i].mask, "CB") <=>
        (\/ Resolved(args[i].mask, "CB")
         \/ \E a \in {"N", "CA", "C"} : Resolved(args[i].mask, a))

\* C6 amended: after add_cb, CB is marked resolved exactly when it was
\* already resolved or all three of N, CA, C were resolved; the other mask
\* columns are unchanged.
C6_AllBackbone ==
  pc = "done" =>
    \A i \in 1..Len(batch) :
      /\ Resolved(batch[i].mask, "CB") <=>
           (\/ Resolved(args[i].mask, "CB")
            \/ \A a \in {"N", "CA", "C"} : Resolved(args[i].mask, a))
      /\ \A a \in {"N", "CA", "C"} : Col(batch[i].mask, atom_order[a]) = Col(args[i].mask, atom_order[a])

\* C6 witness: add_cb has run on a batch holding a residue whose CB was
\* unresolved with full backbone (now resolved) and one whose CB was
\* unresolved with only part of the backbone resolved (still unresolved).
C6_Witness ==
  /\ pc = "done"
  /\ \E i \in 1..Len(batch) :
       /\ ~Resolved(args[i].mask, "CB")
       /\ \A a \in {"N", "CA", "C"} : Resolved(args[i].mask, a)
       /\ Resolved(batch[i].mask, "CB")
  /\ \E i \in 1..Len(batch) :
       /\ ~Resolved(args[i].mask, "CB")
       /\ Resolved(args[i].mask, "CA") /\ ~Resolved(args[i].mask, "N")
       /\ ~Resolved(batch[i].mask, "CB")

-----------------------------------------------------------------------------
(* Specification SpecPdb: prep_pdb on two-chain files with any native      *)
(* numbering in -MaxNum..MaxNum, resolved and unresolved residues          *)

MaxNum == 1
MaxChainRes == 2

\* glycine without CB, a fully resolved alanine, a residue whose first atom
\* slot is unresolved
PdbResKinds ==
  {[aatype |-> 7, mask |-> <<1, 1, 1, 0>>, cb_pos |-> "zero"],
   [aatype |-> 0, mask |-> <<1, 1, 1, 1>>, cb_pos |-> "native"],
   [aatype |-> 0, mask |-> <<0, 1, 1, 1>>, cb_pos |-> "native"]}

PdbResidues ==
  {[num |-> n, aatype |-> k.aatype, mask |-> k.mask, cb_pos |-> k.cb_pos] :
     n \in (0 - MaxNum)..MaxNum, k \in PdbResKinds}

PdbFiles ==
  {[exists |-> FALSE, chains |-> <<>>]} \cup
  {[exists |-> TRUE,
    chains |-> <<[id |-> "A", residues |-> ra], [id |-> "B", residues |-> rb]>>] :
     ra \in SeqsOf(PdbResidues, 0, MaxChainRes),
     rb \in SeqsOf(PdbResidues, 0, MaxChainRes)}

ChainArgs == {None, <<"A">>, <<"A", "B">>, <<"B", "A">>}

InitPdb ==
  /\ pc = "start"
  /\ args \in [file : PdbFiles, chain : ChainArgs, for_alphafold : BOOLEAN]
  /\ o = Idle
  /\ batch = Idle /\ feat = Idle /\ ret = Idle
  /\ self = Idle /\ heap = Idle /\ cfg = Idle /\ call = Idle

PrepPdb ==
  /\ pc = "start"
  /\ o' = prep_pdb(args.file, args.chain, args.for_alphafold)
  /\ pc' = "done"
  /\ UNCHANGED <<args, batch, feat, ret, self, heap, cfg, call>>

NextPdb == PrepPdb

SpecPdb == InitPdb /\ [][NextPdb]_vars

\* the slice of the returned residue_index that requested chain i contributed
ChainSlice(res, i) ==
  LET start == SeqSum(SubSeq(res.chain_len, 1, i - 1))
  IN SubSeq(res.residue_index, start + 1, start + res.chain_len[i])

\* C1 as stated: whenever prep_pdb returns for two or more chains, the
\* smallest index of chain i+1 minus the largest index of chain i is >= 50.
C1_ChainGap ==
  (pc = "done" /\ o.err = None /\ Len(o.chain_len) >= 2) =>
    \A i \in 1..(Len(o.chain_len) - 1) :
      SeqMin(ChainSlice(o, i + 1)) - SeqMax(ChainSlice(o, i)) >= 50

-----------------------------------------------------------------------------
(* make_fixed_size                                                         *)

\* shape_placeholders
NUM_RES == "num residues placeholder"
NUM_MSA_SEQ == "msa placeholder"
NUM_EXTRA_SEQ == "extra msa placeholder"
NUM_TEMPLATES == "num templates placeholder"

Placeholders == {NUM_RES, NUM_MSA_SEQ, NUM_EXTRA_SEQ, NUM_TEMPLATES}

\* shape_schema: the declared schema, with a leading literal axis when
\* batch_axis is set
ShapeSchema(c, batch_axis) ==
  [k \in DOMAIN c.feat |-> IF batch_axis THEN <<None>> \o c.feat[k] ELSE c.feat[k]]

\* pad_size_map
PadSizeMap(c, length) ==
  (NUM_RES :> length) @@
  (NUM_MSA_SEQ :> c.max_msa_clusters - c.max_templates) @@
  (NUM_EXTRA_SEQ :> c.max_extra_msa) @@
  (NUM_TEMPLATES :> c.max_templates)

\* pad_size = [pad_size_map.get(s2, None) or s1 ...]: the resolved size of a
\* placeholder unless that is 0 (falsy), else the existing size
PadSize(shape, schema, pad_size_map) ==
  [i \in 1..Len(shape) |->
     IF schema[i] \in DOMAIN pad_size_map /\ pad_size_map[schema[i]] # 0
     THEN pad_size_map[schema[i]]
     ELSE shape[i]]

\* padding = [(0, p - shape[i]) ...]: the trailing amounts
Padding(shape, pad_size) == [i \in 1..Len(shape) |-> pad_size[i] - shape[i]]

\* an all-zero tensor of a shape, as nested sequences
RECURSIVE Zeros(_)
Zeros(shape) ==
  IF shape = <<>> THEN 0 ELSE [i \in 1..Head(shape) |-> Zeros(Tail(shape))]

\* tf.pad(v, [(0, p_i - shape_i)]): trailing zero fill on every axis
RECURSIVE TfPad(_, _, _)
TfPad(v, shape, pad_size) ==
  IF shape = <<>> THEN v
  ELSE [i \in 1..Head(pad_size) |->
          IF i <= Head(shape) THEN TfPad(v[i], Tail(shape), Tail(pad_size))
          ELSE Zeros(Tail(pad_size))]

\* tf.pad rejects a negative amount (InvalidArgumentError)
TfPadOk(padding) == \A i \in 1..Len(padding) : padding[i] >= 0

\* np.asarray(v): an ndarray is returned as it is, anything else is
\* materialised into a new ndarray
NpAsarray(v, fresh) ==
  IF v.kind = "ndarray" THEN v ELSE [v EXCEPT !.obj = fresh, !.kind = "ndarray"]

\* The loop over feat.items() (lines 300-313), from item k on.  f is the
\* caller's dict, updated in place; the result carries the exception, if any.
RECURSIVE PadLoop(_, _, _, _)
PadLoop(f, k, shape_schema, pad_size_map) ==
  IF k > Len(f) THEN [err |-> None, feat |-> f]
  ELSE IF f[k].key = "extra_cluster_assignment"
       THEN PadLoop(f, k + 1, shape_schema, pad_size_map)
  ELSE IF f[k].key \notin DOMAIN shape_schema THEN [err |-> "KeyError", feat |-> f]
  ELSE
    LET shape    == f[k].shape
        schema   == shape_schema[f[k].key]
    IN IF Len(shape) # Len(schema) THEN [err |-> "AssertionError", feat |-> f]
       ELSE
         LET pad_size == PadSize(shape, schema, pad_size_map)
             padding  == Padding(shape, pad_size)
         IN IF padding = <<>> THEN PadLoop(f, k + 1, shape_schema, pad_size_map)
            ELSE IF ~TfPadOk(padding) THEN [err |-> "InvalidArgumentError", feat |-> f]
            ELSE PadLoop([f EXCEPT ![k] = [key |-> f[k].key, shape |-> pad_size,
                                           obj |-> Len(f) + k, kind |-> "tf",
                                           v |-> TfPad(f[k].v, shape, pad_size)]],
                         k + 1, shape_schema, pad_size_map)

\* line 314: the caller's dict as the loop left it and the returned dict
\* (None when an exception is raised); n is the number of items
AsArrays(r, n) ==
  [err  |-> r.err,
   feat |-> r.feat,
   ret  |-> IF r.err # None THEN <<>>
            ELSE [i \in 1..Len(r.feat) |-> NpAsarray(r.feat[i], 2 * n + i)]]

\* make_fixed_size(feat, model_runner, length, batch_axis)
make_fixed_size(f, c, length, batch_axis) ==
  AsArrays(PadLoop(f, 1, ShapeSchema(c, batch_axis), PadSizeMap(c, length)), Len(f))

-----------------------------------------------------------------------------
(* Specification SpecPad: make_fixed_size on feature dicts of one or two   *)
(* tensors, for every small configuration and target length               *)

MaxDim == 2
MaxLit == 1
MaxCfg == 1
MaxPadLen == 2

\* cfg.data.eval.feat: the declared schema of the features used here
FeatSchema ==
  [aatype             |-> <<NUM_RES>>,
   residue_index      |-> <<NUM_RES>>,
   seq_mask           |-> <<NUM_RES>>,
   msa_mask           |-> <<NUM_MSA_SEQ, NUM_RES>>,
   msa_row_mask       |-> <<NUM_MSA_SEQ>>,
   extra_msa_row_mask |-> <<NUM_EXTRA_SEQ>>,
   template_aatype    |-> <<NUM_TEMPLATES, NUM_RES>>,
   template_mask      |-> <<NUM_TEMPLATES>>,
   all_atom_mask      |-> <<NUM_RES, None>>,
   all_atom_positions |-> <<NUM_RES, None, None>>,
   seq_length         |-> <<>>]

PadCfgs ==
  [max_msa_clusters : 0..MaxCfg, max_templates : 0..MaxCfg,
   max_extra_msa : 0..MaxCfg, feat : {FeatSchema}]

\* the shapes a schema admits: any size 0..MaxDim on a placeholder axis,
\* 1..MaxLit on a literal axis
RECURSIVE ShapesOf(_)
ShapesOf(schema) ==
  IF schema = <<>> THEN {<<>>}
  ELSE {<<d>> \o rest :
          d \in (IF Head(schema) \in Placeholders THEN 0..MaxDim ELSE 1..MaxLit),
          rest \in ShapesOf(Tail(schema))}

\* the shapes drawn for key k: those of its schema, one of a wrong rank for
\* seq_length, any vector for extra_cluster_assignment
KeyShapes(k, batch_axis) ==
  IF k = "extra_cluster_assignment" THEN {<<d>> : d \in 0..MaxDim}
  ELSE ShapesOf(ShapeSchema([feat |-> FeatSchema], batch_axis)[k])
         \cup (IF k = "seq_length" THEN {<<1, 1>>} ELSE {})

PadKeys ==
  {"aatype", "msa_row_mask", "extra_msa_row_mask", "template_mask",
   "all_atom_mask", "seq_length", "extra_cluster_assignment"}

\* key orders of the dicts drawn: one key, or aatype with one other key in
\* either insertion order
PadKeyOrders ==
  {<<k>> : k \in PadKeys} \cup
  {<<"aatype", k>> : k \in PadKeys \ {"aatype"}} \cup
  {<<k, "aatype">> : k \in PadKeys \ {"aatype"}}

\* an all-one tensor of a shape
RECURSIVE Ones(_)
Ones(shape) ==
  IF shape = <<>> THEN 1 ELSE [i \in 1..Head(shape) |-> Ones(Tail(shape))]

\* every dict over a key order: tensor i is object i, all of one array kind,
\* filled with ones so that the zero fill of the padding shows
FeatDicts(batch_axis) ==
  UNION {
    {[i \in 1..Len(ks) |-> [key |-> ks[i], shape |-> shp[i], obj |-> i, kind |-> kd,
                             v |-> Ones(shp[i])]] :
       shp \in {f \in [1..Len(ks) -> UNION {KeyShapes(ks[j], batch_axis) : j \in 1..Len(ks)}] :
                  \A i \in 1..Len(ks) : f[i] \in KeyShapes(ks[i], batch_axis)},
       kd \in {"ndarray", "jax"}} :
    ks \in PadKeyOrders}

InitPad ==
  /\ pc = "start"
  /\ cfg \in PadCfgs
  /\ \E ba \in BOOLEAN : \E f \in FeatDicts(ba) : \E n \in 0..MaxPadLen :
       /\ feat = f
       /\ args = [feat |-> f, length |-> n, batch_axis |-> ba]
  /\ ret = Idle
  /\ batch = Idle /\ o = Idle
  /\ self = Idle /\ heap = Idle /\ call = Idle

MakeFixedSize ==
  /\ pc = "start"
  /\ LET r == make_fixed_size(feat, cfg, args.length, args.batch_axis)
     IN /\ feat' = r.feat
        /\ ret' = [err |-> r.err, feat |-> r.ret]
  /\ pc' = "done"
  /\ UNCHANGED <<args, batch, o, self, heap, cfg, call>>

NextPad == MakeFixedSize

SpecPad == InitPad /\ [][NextPad]_vars

Returned == pc = "done" /\ ret.err = None

\* the placeholder axes of tensor i of the call's input, with the size each
\* resolves to for the call
PadTarget(i, d) ==
  LET schema == ShapeSchema(cfg, args.batch_axis)[args.feat[i].key]
  IN PadSizeMap(cfg, args.length)[schema[d]]

IsPlaceholderAxis(i, d) ==
  /\ args.feat[i].key \in DOMAIN cfg.feat
  /\ Len(args.feat[i].shape) = Len(ShapeSchema(cfg, args.batch_axis)[args.feat[i].key])
  /\ ShapeSchema(cfg, args.batch_axis)[args.feat[i].key][d] \in Placeholders

\* the first half of C2 on its own: no returned size is below the original
NeverTruncates ==
  Returned =>
    \A i \in 1..Len(args.feat) : \A d \in 1..Len(args.feat[i].shape) :
      ret.feat[i].shape[d] >= args.feat[i].shape[d]

\* C2 as stated: no size of the returned dict is below the original size,
\* and a call in which an existing size exceeds the resolved pad target
\* fails and returns no dict.
C2_NeverTruncatesOrFails ==
  /\ NeverTruncates
  /\ pc = "done" =>
       ((\E i \in 1..Len(args.feat) : \E d \in 1..Len(args.feat[i].shape) :
           IsPlaceholderAxis(i, d) /\ args.feat[i].shape[d] > PadTarget(i, d))
        => ret.err # None)

\* C3 as stated: when make_fixed_size returns, every placeholder axis of
\* every tensor other than extra_cluster_assignment has the size the
\* placeholder resolves to (0 included) and every literal axis its old size.
C3_ResolvedSizes ==
  Returned =>
    \A i \in 1..Len(args.feat) :
      args.feat[i].key # "extra_cluster_assignment" =>
        \A d \in 1..Len(args.feat[i].shape) :
          IF IsPlaceholderAxis(i, d)
          THEN ret.feat[i].shape[d] = PadTarget(i, d)
          ELSE ret.feat[i].shape[d] = args.feat[i].shape[d]

\* C7 as stated: after the call the dict passed in holds, under every key,
\* the tensor (object and shape) it held before, and no tensor of the
\* returned dict is an object of the input dict.
C7_PureTransform ==
  pc = "done" =>
    /\ feat = args.feat
    /\ ret.err = None =>
         \A i \in 1..Len(ret.feat) : \A j \in 1..Len(args.feat) :
           ret.feat[i].obj # args.feat[j].obj

-----------------------------------------------------------------------------
(* Feature dicts and design options of the owning object                   *)

\* a freshly built ndarray under a key
Tensor(key, shape, v) ==
  [key |-> key, shape |-> shape, obj |-> 0, kind |-> "ndarray", v |-> v]

HasKey(f, key) == \E i \in 1..Len(f) : f[i].key = key

\* f[key]
Get(f, key) == f[CHOOSE i \in 1..Len(f) : f[i].key = key]

\* f[key] = t
SetKey(f, key, t) ==
  IF HasKey(f, key)
  THEN [i \in 1..Len(f) |-> IF f[i].key = key THEN t ELSE f[i]]
  ELSE Append(f, t)

\* np.ones_like
OnesLike(t) == Tensor(t.key, t.shape, Ones(t.shape))

\* atom position codes: an unresolved atom has zero coordinates
PosCode(p) == IF p = "native" THEN 1 ELSE IF p = "computed" THEN 2 ELSE 0

\* the batch dict of prep_pdb as a feature dict: aatype [N], all_atom_mask
\* [N, 4], all_atom_positions [N, 1, 1] (the CB slot)
BatchFeat(b) ==
  <<Tensor("aatype", <<Len(b)>>, [i \in 1..Len(b) |-> b[i].aatype]),
    Tensor("all_atom_positions", <<Len(b), 1, 1>>,
           [i \in 1..Len(b) |-> <<<<PosCode(b[i].cb_pos)>>>>]),
    Tensor("all_atom_mask", <<Len(b), 4>>, [i \in 1..Len(b) |-> b[i].mask])>>

\* jax.tree_map(lambda x: x[p], batch): rows p (0-based) of every tensor
TakeRows(f, p) ==
  [i \in 1..Len(f) |->
     Tensor(f[i].key, <<Len(p)>> \o Tail(f[i].shape),
            [j \in 1..Len(p) |-> f[i].v[p[j] + 1]])]

\* the values of a feature dict, without object identities
Values(f) == [i \in 1..Len(f) |-> [key |-> f[i].key, shape |-> f[i].shape, v |-> f[i].v]]

WeightKeys ==
  {"dgram_cce", "fape", "rmsd", "con", "i_pae", "i_con", "sc_rmsd", "sc_fape"}

\* dict.update on the weights object; weights are in hundredths
UpdateWeights(h, root, w) ==
  [h EXCEPT ![h[root].weights] =
     [k \in WeightKeys |-> IF k \in DOMAIN w THEN w[k] ELSE @[k]]]

\* the value of the options dict rooted at an address, nested dicts included
Deref(h, root) ==
  [weights  |-> h[h[root].weights],
   template |-> h[h[root].template],
   fix_seq  |-> h[root].fix_seq,
   pos      |-> h[root].pos]

\* copy_dict(x): a deep copy, built at addresses new, new+1, new+2
copy_dict(h, root, new) ==
  (new :> [h[root] EXCEPT !.weights = new + 1, !.template = new + 2]) @@
  ((new + 1) :> h[h[root].weights]) @@
  ((new + 2) :> h[h[root].template]) @@ h

\* restart(**kwargs): the design loop's entry point; it is handed the
\* prepared state and leaves it as it is
restart(st) == st

\* a variant of the last two statements that keeps a reference to the live
\* options instead of copying them
FinishAlias(st) ==
  restart([st EXCEPT !.self._opt = st.self.opt,
                     !.self.has = @ \cup {"_opt"}])

\* self._opt = copy_dict(self.opt); self.restart(**kwargs)
Finish(st) ==
  restart([st EXCEPT !.heap = copy_dict(st.heap, st.self.opt, 4),
                     !.self._opt = 4,
                     !.self.has = @ \cup {"_opt"}])

-----------------------------------------------------------------------------
(* _af_prep._prep_features                                                 *)

\* self._runner.process_features(feature_dict, random_seed=0): the inputs in
\* the shapes the configuration declares, with a leading batch axis; only
\* the first MSA row is unmasked
process_features(c, length, use_templates) ==
  LET m == IF c.max_msa_clusters - c.max_templates > 0
           THEN c.max_msa_clusters - c.max_templates ELSE 0
      first(n) == [i \in 1..n |-> IF i = 1 THEN 1 ELSE 0]
      base ==
        <<Tensor("aatype", <<1, length>>, Zeros(<<1, length>>)),
          Tensor("residue_index", <<1, length>>, <<Arange(length)>>),
          Tensor("seq_mask", <<1, length>>, Ones(<<1, length>>)),
          Tensor("msa_mask", <<1, m, length>>,
                 <<[i \in 1..m |-> [j \in 1..length |-> first(m)[i]]]>>),
          Tensor("msa_row_mask", <<1, m>>, <<first(m)>>)>>
  IN IF use_templates
     THEN Append(base, Tensor("template_aatype", <<1, c.max_templates, length>>,
                              Zeros(<<1, c.max_templates, length>>)))
     ELSE base

\* lines 30-33: the runner configuration after "reconfigure model"
RunnerConfig(st, num_templates) ==
  IF st.self._args.use_templates
  THEN [st.cfg EXCEPT !.max_templates = num_templates,
                      !.max_msa_clusters = st.self._num + num_templates]
  ELSE st.cfg

\* lines 43-45: every MSA row unmasked when more than one sequence is designed
AllRows(st, inputs) ==
  IF st.self._num > 1
  THEN SetKey(SetKey(inputs, "msa_row_mask", OnesLike(Get(inputs, "msa_row_mask"))),
              "msa_mask", OnesLike(Get(inputs, "msa_mask")))
  ELSE inputs

\* _prep_features(length, num_templates) with template_features=None, as
\* every caller in this file calls it: the runner configuration after the
\* call and the inputs returned
prep_features(st, length, num_templates) ==
  [cfg |-> RunnerConfig(st, num_templates),
   inputs |-> AllRows(st, process_features(RunnerConfig(st, num_templates), length,
                                           st.self._args.use_templates))]

-----------------------------------------------------------------------------
(* repeat_idx and prep_pos                                                 *)

\* a variant that offsets each copy by the number of residues instead of the
\* last index
RepeatIdxByLen(idx, copies, offset) ==
  LET step == [i \in 1..(copies - 1) |-> Len(idx) + offset]
      idx_offset == Repeat(CumSum(<<0>> \o step), Len(idx))
      tiled == Tile(idx, copies)
  IN [i \in 1..Len(tiled) |-> tiled[i] + idx_offset[i]]

\* repeat_idx(idx, copies, offset)
repeat_idx(idx, copies, offset) ==
  LET step == [i \in 1..(copies - 1) |-> idx[Len(idx)] + offset]
      idx_offset == Repeat(CumSum(<<0>> \o step), Len(idx))
      tiled == Tile(idx, copies)
  IN [i \in 1..Len(tiled) |-> tiled[i] + idx_offset[i]]

\* prep_pos(pos, residue, chain): the 0-based row of every selected
\* (chain, residue number) pair; a pair that does not match exactly one row
\* fails an assertion.  The selection is given already parsed.
prep_pos(sel, idx) ==
  LET rows(k) == {i \in 1..Len(idx.residue) :
                    idx.residue[i] = sel[k].residue /\ idx.chain[i] = sel[k].chain}
  IN IF \E k \in 1..Len(sel) : Cardinality(rows(k)) # 1
     THEN [err |-> "AssertionError", pos |-> <<>>]
     ELSE [err |-> None,
           pos |-> [k \in 1..Len(sel) |-> (CHOOSE i \in rows(k) : TRUE) - 1]]

-----------------------------------------------------------------------------
(* The four protocol assemblies.  Each takes the state st = [self, heap,   *)
(* cfg] and the call's arguments and yields the state the call leaves and  *)
(* the exception it raised, if any.                                        *)

Raise(st, e) == [st |-> st, err |-> e]
Return(st) == [st |-> st, err |-> None]

SetAttr(slf, name, value) ==
  [[slf EXCEPT ![name] = value] EXCEPT !.has = @ \cup {name}]

\* (pdb["idx"]["chain"] == c).sum() summed over the chains of a selector
CountChains(idx, cs) ==
  SeqSum([k \in 1..Len(cs) |->
            Cardinality({i \in 1..Len(idx.chain) : idx.chain[i] = cs[k]})])

\* a variant that starts the binder's numbering at the target's length
BinderIndexByLen(ri, target_len, binder_len, pdb_index) ==
  [j \in 1..Len(ri) |->
     IF j <= target_len THEN ri[j] ELSE target_len + (j - target_len - 1) + 50]

\* residue_index[:, target_len:] = pdb["residue_index"][-1] + np.arange(binder_len) + 50
BinderIndex(ri, target_len, binder_len, pdb_index) ==
  [j \in 1..Len(ri) |->
     IF j <= target_len THEN ri[j]
     ELSE pdb_index[Len(pdb_index)] + Arange(binder_len)[j - target_len] + 50]

\* for k in ["seq_mask", "msa_mask"]: inputs[k] = np.ones_like(inputs[k])
OnesMasks(inputs) ==
  SetKey(SetKey(inputs, "seq_mask", OnesLike(Get(inputs, "seq_mask"))),
         "msa_mask", OnesLike(Get(inputs, "msa_mask")))

\* inputs["residue_index"] = idx[None]
SetResidueIndex(inputs, idx) ==
  SetKey(inputs, "residue_index", Tensor("residue_index", <<1, Len(idx)>>, <<idx>>))

\* _prep_binder, hallucination branch, lines 101-105: r1 and r2 are what the
\* two make_fixed_size calls of lines 98-99 yield
BinderPadded(st, a, pdb, target_len, r1, r2) ==
  IF r1.err # None THEN Raise([st EXCEPT !.self._inputs = r1.feat], r1.err)
  ELSE IF r2.err # None THEN Raise([st EXCEPT !.self._inputs = r1.ret], r2.err)
  ELSE
    LET old == Get(r1.ret, "residue_index")
        ri  == Tensor("residue_index", old.shape,
                      <<BinderIndex(old.v[1], target_len, a.binder_len,
                                    pdb.residue_index)>>)
    IN Return([st EXCEPT
                 !.self = SetAttr([@ EXCEPT !._inputs =
                                      OnesMasks(SetKey(r1.ret, "residue_index", ri))],
                                  "_batch", r2.ret),
                 !.heap = UpdateWeights(@, st.self.opt,
                                        [con |-> 50, i_pae |-> 1, i_con |-> 50])])

\* _prep_binder, hallucination branch (lines 95-105)
BinderHallucination(st, a, pdb, target_len) ==
  BinderPadded(st, a, pdb, target_len,
               make_fixed_size(st.self._inputs, st.cfg, target_len + a.binder_len, TRUE),
               make_fixed_size(BatchFeat(pdb.batch), st.cfg,
                               target_len + a.binder_len, FALSE))

\* _prep_binder, redesign branch (lines 90-94)
BinderRedesign(st, a, pdb, target_len) ==
  Return([st EXCEPT
            !.self = SetAttr(SetAttr(@, "_batch", BatchFeat(pdb.batch)), "_wt_aatype",
                             SubSeq(Get(BatchFeat(pdb.batch), "aatype").v,
                                    target_len + 1, Len(pdb.batch))),
            !.heap = UpdateWeights(@, st.self.opt,
                       [dgram_cce |-> 100, fape |-> 0, rmsd |-> 0,
                        con |-> 0, i_pae |-> 1, i_con |-> 0])])

\* lines 107-111, once one of the two branches has run
BinderFinish(r, target_len, binder_len) ==
  IF r.err # None THEN r
  ELSE Return(Finish(
         [r.st EXCEPT !.self =
            SetAttr(SetAttr(SetAttr(@, "_target_len", target_len),
                            "_binder_len", binder_len),
                    "_len", binder_len)]))

\* lines 84-90: hs is the hotspot lookup
BinderHotspot(st, a, pdb, target_len, binder_len, hs) ==
  IF hs.err # None THEN Raise(st, hs.err)
  ELSE BinderFinish(
         IF a.binder_chain # None
         THEN BinderRedesign([st EXCEPT !.self = SetAttr(@, "_hotspot", hs.pos)],
                             a, pdb, target_len)
         ELSE BinderHallucination([st EXCEPT !.self = SetAttr(@, "_hotspot", hs.pos)],
                                  a, pdb, target_len),
         target_len, binder_len)

\* lines 77-88: f is what _prep_features yields;
\* residue_index[..., :] = pdb["residue_index"] needs equal lengths
BinderFeatures(st, a, pdb, target_len, binder_len, f) ==
  IF Get(f.inputs, "residue_index").shape[2] # Len(pdb.residue_index)
  THEN Raise([st EXCEPT !.cfg = f.cfg, !.self = SetAttr(@, "_inputs", f.inputs)],
             "ValueError")
  ELSE BinderHotspot(
         [st EXCEPT !.cfg = f.cfg,
                    !.self = SetAttr(@, "_inputs",
                                     SetResidueIndex(f.inputs, pdb.residue_index))],
         a, pdb, target_len, binder_len,
         IF a.hotspot = None THEN [err |-> None, pos |-> None]
         ELSE prep_pos(a.hotspot, pdb.idx))

\* lines 72-80: the lengths, and the features built for them
BinderLengths(st, a, pdb, target_len, binder_len) ==
  BinderFeatures(st, a, pdb, target_len, binder_len,
                 IF a.binder_chain # None
                 THEN prep_features(st, target_len + binder_len,
                                    IF a.split_templates THEN 2 ELSE 1)
                 ELSE prep_features(st, target_len, 1))

\* lines 71-79: pdb is what prep_pdb yields
BinderLoaded(st, a, pdb) ==
  IF pdb.err # None THEN Raise(st, pdb.err)
  ELSE IF a.binder_chain # None
       THEN BinderLengths(st, a, pdb, CountChains(pdb.idx, a.chain),
                          CountChains(pdb.idx, a.binder_chain))
       ELSE BinderLengths(st, a, pdb, Len(pdb.residue_index), a.binder_len)

\* lines 64-66
BinderStart(st, a) ==
  [st EXCEPT
     !.self = SetAttr([@ EXCEPT !._args.redesign = (a.binder_chain # None)],
                      "_copies", 1),
     !.heap = [@ EXCEPT ![st.heap[st.self.opt].template].dropout =
                           IF a.use_binder_template THEN 0 ELSE 100]]

\* _prep_binder(pdb_filename, chain, binder_len, binder_chain,
\*              use_binder_template, split_templates, hotspot)
prep_binder(st, a, files) ==
  BinderLoaded(BinderStart(st, a), a,
               prep_pdb(files[a.pdb_filename],
                        IF a.binder_chain # None THEN a.chain \o a.binder_chain
                        ELSE a.chain,
                        TRUE))

\* the block_diag switch shared by _prep_fixbb and _prep_hallucination
\* (lines 118-121, 160-163): the MSA cluster count is raised before anything
\* else happens
BlockDiag(st, a) ==
  [block_diag |-> a.block_diag /\ ~a.repeat /\ a.copies > 1,
   st |-> IF a.block_diag /\ ~a.repeat /\ a.copies > 1
          THEN [st EXCEPT !.cfg.max_msa_clusters = st.self._num * (1 + a.copies)]
          ELSE st]

\* self.opt["weights"].update({"i_pae": 0.01, "i_con": 0.0}) (line 147)
Interface(r) ==
  IF r.err # None THEN r
  ELSE Return([r.st EXCEPT !.heap = UpdateWeights(@, r.st.self.opt,
                                                  [i_pae |-> 1, i_con |-> 0])])

\* _prep_fixbb, lines 145-146: r1 and r2 are what the two make_fixed_size
\* calls of lines 143-144 yield
FixbbPadded(st, a, pdb, r1, r2) ==
  IF r1.err # None THEN Raise([st EXCEPT !.self._inputs = r1.feat], r1.err)
  ELSE IF r2.err # None
       THEN Raise([st EXCEPT !.self._inputs = r1.ret, !.self._batch = r2.feat], r2.err)
  ELSE Return([st EXCEPT
                 !.self._inputs =
                    OnesMasks(SetResidueIndex(r1.ret,
                                repeat_idx(pdb.residue_index, a.copies, 50))),
                 !.self._batch = r2.ret])

\* _prep_fixbb, copies > 1 and neither repeat nor homooligomer (lines 143-146)
FixbbCopies(st, a, pdb) ==
  FixbbPadded(st, a, pdb,
              make_fixed_size(st.self._inputs, st.cfg, st.self._len * a.copies, TRUE),
              make_fixed_size(st.self._batch, st.cfg, st.self._len * a.copies, FALSE))

\* lines 151-153
FixbbFinish(r) ==
  IF r.err # None THEN r
  ELSE Return(Finish([r.st EXCEPT !.self =
         SetAttr(@, "_wt_aatype",
                 SubSeq(Get(r.st.self._batch, "aatype").v, 1, r.st.self._len))]))

\* lines 133-153
FixbbIndexed(st, a, pdb) ==
  FixbbFinish(
    IF a.copies > 1
    THEN IF a.repeat
         THEN Return([st EXCEPT !.self._len = Len(pdb.residue_index) \div a.copies])
         ELSE IF a.homooligomer
              THEN Interface(Return([st EXCEPT
                     !.self._len = Len(pdb.residue_index) \div a.copies,
                     !.self._inputs = SetResidueIndex(@, pdb.residue_index)]))
              ELSE Interface(FixbbCopies(st, a, pdb))
    ELSE Return([st EXCEPT !.self._inputs = SetResidueIndex(@, pdb.residue_index)]))

\* lines 124-131: f is what _prep_features yields
FixbbFeatures(bd, a, pdb, f) ==
  FixbbIndexed(
    [bd.st EXCEPT
       !.cfg = f.cfg,
       !.self = SetAttr(SetAttr(SetAttr(SetAttr(
                  [@ EXCEPT !._args.repeat = a.repeat,
                            !._args.block_diag = bd.block_diag],
                  "_batch", BatchFeat(pdb.batch)), "_len", Len(pdb.residue_index)),
                  "_inputs", f.inputs), "_copies", a.copies),
       !.heap = UpdateWeights(@, bd.st.self.opt,
                  [dgram_cce |-> 100, rmsd |-> 0, con |-> 0, fape |-> 0])],
    a, pdb)

\* lines 123-126: bd is the block_diag switch and pdb what prep_pdb yields
FixbbLoaded(bd, a, pdb) ==
  IF pdb.err # None THEN Raise(bd.st, pdb.err)
  ELSE FixbbFeatures(bd, a, pdb, prep_features(bd.st, Len(pdb.residue_index), 1))

\* _prep_fixbb(pdb_filename, chain, copies, homooligomer, repeat, block_diag)
prep_fixbb(st, a, files) ==
  FixbbLoaded(BlockDiag(st, a), a, prep_pdb(files[a.pdb_filename], a.chain, TRUE))

\* lines 172-181
HallucinationCopies(st, a) ==
  Return(Finish(
    IF a.copies > 1
    THEN [st EXCEPT
            !.heap = IF a.repeat THEN @
                     ELSE UpdateWeights(@, st.self.opt, [i_pae |-> 1, i_con |-> 10]),
            !.self._inputs =
               SetResidueIndex(@, repeat_idx(Arange(a.length), a.copies,
                                             IF a.repeat THEN 1 ELSE 50))]
    ELSE st))

\* lines 167-171: f is what _prep_features yields
HallucinationFeatures(bd, st, a, f) ==
  HallucinationCopies(
    [st EXCEPT
       !.cfg = f.cfg,
       !.self = SetAttr([@ EXCEPT !._args.block_diag = bd.block_diag,
                                  !._args.repeat = a.repeat],
                        "_inputs", f.inputs),
       !.heap = UpdateWeights(@, st.self.opt, [con |-> 100])],
    a)

\* lines 165-167
HallucinationSized(bd, st, a) ==
  HallucinationFeatures(bd, st, a, prep_features(st, a.length * a.copies, 1))

\* lines 160-166: bd is the block_diag switch
HallucinationStart(bd, a) ==
  HallucinationSized(bd,
                     [bd.st EXCEPT !.self = SetAttr(SetAttr(@, "_len", a.length),
                                                    "_copies", a.copies)],
                     a)

\* _prep_hallucination(length, copies, repeat, block_diag)
prep_hallucination(st, a) == HallucinationStart(BlockDiag(st, a), a)

\* make_atom14_positions(batch): the keys it adds to the batch dict
Atom14(b) ==
  SetKey(b, "atom14_gt_exists",
         Tensor("atom14_gt_exists", Get(b, "all_atom_mask").shape,
                Get(b, "all_atom_mask").v))

\* lines 187-188: use_sidechains, which a "sidechain" keyword replaces
UseSidechains(a) ==
  IF a.sidechain # "absent" THEN a.sidechain = "True" ELSE a.use_sidechains

\* lines 211-217: f is what _prep_features yields
PartialFeatures(st, a, len, f) ==
  Return(Finish(
    [st EXCEPT
       !.cfg = f.cfg,
       !.self = SetAttr(SetAttr(@, "_len", len), "_inputs", f.inputs),
       !.heap = UpdateWeights(@, st.self.opt,
                  IF UseSidechains(a)
                  THEN [dgram_cce |-> 100, con |-> 100, fape |-> 0, rmsd |-> 0,
                        sc_rmsd |-> 10, sc_fape |-> 10]
                  ELSE [dgram_cce |-> 100, con |-> 100, fape |-> 0, rmsd |-> 0])]))

\* lines 205-209
PartialSidechains(st, a, len) ==
  PartialFeatures(st, a, len, prep_features(st, len, 1))

\* lines 204-208: self._batch["aatype"] on an object that has no _batch yet
\* raises AttributeError
PartialWildType(st, a, pdb) ==
  IF "_batch" \notin st.self.has THEN Raise(st, "AttributeError")
  ELSE PartialSidechains(
         [st EXCEPT !.self =
            SetAttr(IF UseSidechains(a) THEN [@ EXCEPT !._batch = Atom14(@)] ELSE @,
                    "_wt_aatype", Get(st.self._batch, "aatype").v)],
         a,
         IF a.length = <<>> THEN Len(pdb.residue_index) ELSE a.length[1])

\* lines 196-202: pi is the position lookup
PartialPositions(st, a, pdb, pi) ==
  IF pi.err # None THEN Raise(st, pi.err)
  ELSE PartialWildType(
         IF a.pos = None
         THEN [st EXCEPT !.heap = [@ EXCEPT ![st.self.opt].pos = pi.pos]]
         ELSE [st EXCEPT
                 !.heap = [@ EXCEPT ![st.self.opt].pos = pi.pos],
                 !.self = SetAttr(SetAttr(@, "_pos_info", pi.pos), "_batch",
                                  TakeRows(BatchFeat(pdb.batch), pi.pos))],
         a, pdb)

\* lines 193-201: pdb is what prep_pdb yields
PartialLoaded(st, a, pdb) ==
  IF pdb.err # None THEN Raise(st, pdb.err)
  ELSE PartialPositions(
         [st EXCEPT !.self = SetAttr(@, "_len", Len(pdb.residue_index))],
         a, pdb,
         IF a.pos = None THEN [err |-> None, pos |-> Arange(Len(pdb.residue_index))]
         ELSE prep_pos(a.pos, pdb.idx))

\* lines 187-191
PartialStart(st, a) ==
  [st EXCEPT
     !.self = SetAttr([@ EXCEPT !._args.use_sidechains = UseSidechains(a)],
                      "_copies", 1),
     !.heap = [@ EXCEPT ![st.self.opt].fix_seq =
                           IF UseSidechains(a) THEN TRUE ELSE a.fix_seq]]

\* _prep_partial(pdb_filename, chain, pos, length, fix_seq, use_sidechains,
\*               sidechain=...); length is <<>> when omitted and <<n>> otherwise
prep_partial(st, a, files) ==
  PartialLoaded(PartialStart(st, a), a,
                prep_pdb(files[a.pdb_filename], a.chain, TRUE))

-----------------------------------------------------------------------------
(* Specification SpecPrep: one _af_prep object, fresh or left by an earlier *)
(* assembly call; one assembly call on it; then any sequence of in-place   *)
(* edits of its live design options                                        *)

MaxSeqs == 2
MaxBinderLen == 2
MaxCopies == 2
MaxLength == 2

Res(num, aatype, mask) ==
  [num |-> num, aatype |-> aatype, mask |-> mask,
   cb_pos |-> IF Col(mask, atom_order.CB) = 1 THEN "native" ELSE "zero"]

\* the structure files on disk: a two-chain complex, a one-chain structure
\* whose numbering starts at 7, and a name with no file behind it
Files ==
  [complex |-> [exists |-> TRUE,
                chains |-> <<[id |-> "A", residues |-> <<Res(1, 0, <<1, 1, 1, 1>>),
                                                          Res(2, 7, <<1, 1, 1, 0>>)>>],
                             [id |-> "B", residues |-> <<Res(1, 3, <<1, 1, 1, 1>>)>>]>>],
   monomer |-> [exists |-> TRUE,
                chains |-> <<[id |-> "A", residues |-> <<Res(7, 5, <<1, 1, 1, 1>>),
                                                          Res(8, 9, <<0, 1, 1, 1>>),
                                                          Res(9, 4, <<1, 1, 0, 0>>)>>]>>],
   missing |-> [exists |-> FALSE, chains |-> <<>>]]

FileNames == DOMAIN Files

\* a position selection, already parsed: residue 1 of chain A
Selection == <<[chain |-> "A", residue |-> 1]>>

\* The argument sets leave out combinations whose extra argument the code
\* ignores (binder_len and a hotspot when a binder chain is given,
\* split_templates when none is, the copy options when copies = 1,
\* block_diag under repeat) and vary one option at a time around the
\* defaults; a missing file is tried with the options read before loading.
BinderArgs ==
  {a \in [pdb_filename : FileNames, chain : {<<"A">>},
           binder_len : 1..MaxBinderLen, binder_chain : {None, <<"B">>},
           use_binder_template : BOOLEAN, split_templates : BOOLEAN,
           hotspot : {None, Selection}] :
     /\ a.binder_chain # None => (a.binder_len = 1 /\ a.hotspot = None)
     /\ a.binder_chain = None => ~a.split_templates
     /\ a.hotspot # None => (~a.use_binder_template /\ a.binder_len = 1)
     /\ a.use_binder_template => (a.binder_len = 1 /\ ~a.split_templates)
     /\ a.pdb_filename = "missing" =>
          (a.binder_chain = None /\ a.binder_len = 1 /\ a.hotspot = None)}

FixbbArgs ==
  {a \in [pdb_filename : FileNames, chain : {None, <<"A", "B">>},
           copies : 1..MaxCopies, homooligomer : BOOLEAN, repeat : BOOLEAN,
           block_diag : BOOLEAN] :
     /\ a.copies = 1 => (~a.homooligomer /\ ~a.repeat /\ ~a.block_diag)
     /\ a.repeat => ~a.homooligomer
     /\ a.block_diag => (~a.homooligomer /\ ~a.repeat)
     /\ a.chain = None => a.copies = 1
     /\ a.pdb_filename = "missing" =>
          (a.chain # None /\ ~a.homooligomer /\ ~a.repeat /\ a.copies = MaxCopies)}

HallucinationArgs ==
  {a \in [length : 1..MaxLength, copies : 1..(MaxCopies + 1), repeat : BOOLEAN,
           block_diag : BOOLEAN] :
     /\ a.block_diag => (~a.repeat /\ a.copies > 1)
     /\ a.repeat => a.copies > 1}

PartialArgs ==
  {a \in [pdb_filename : FileNames, chain : {<<"A">>},
           pos : {None, Selection}, length : {<<>>, <<1>>},
           fix_seq : BOOLEAN, use_sidechains : BOOLEAN,
           sidechain : {"absent", "True"}] :
     /\ a.sidechain = "True" => (~a.use_sidechains /\ a.fix_seq /\ a.pos = None)
     /\ a.use_sidechains => a.fix_seq
     /\ a.length # <<>> => (a.pos # None /\ ~a.fix_seq)
     /\ (a.pos # None /\ a.fix_seq) => a.use_sidechains
     /\ a.pdb_filename = "missing" =>
          (a.pos = None /\ a.sidechain = "absent" /\ ~a.use_sidechains)}

\* the object as its constructor leaves it: no prepared state, options at
\* their defaults, the runner configured for num sequences and for one
\* template when templates are used
Fresh(ut, n) ==
  [self |-> [has |-> {},
             _args |-> [use_templates |-> ut, redesign |-> FALSE, repeat |-> FALSE,
                        block_diag |-> FALSE, use_sidechains |-> FALSE],
             _num |-> n, opt |-> 1, _opt |-> 0,
             _inputs |-> <<>>, _batch |-> <<>>, _wt_aatype |-> <<>>,
             _hotspot |-> None, _pos_info |-> <<>>,
             _len |-> 0, _copies |-> 0, _target_len |-> 0, _binder_len |-> 0],
   heap |-> (1 :> [weights |-> 2, template |-> 3, fix_seq |-> FALSE, pos |-> <<>>]) @@
            (2 :> [k \in WeightKeys |-> 0]) @@
            (3 :> [dropout |-> 100]),
   cfg |-> [max_msa_clusters |-> n + (IF ut THEN 1 ELSE 0),
            max_templates |-> IF ut THEN 1 ELSE 0,
            max_extra_msa |-> 1, feat |-> FeatSchema]]

FreshStates == {Fresh(ut, n) : ut \in BOOLEAN, n \in 1..MaxSeqs}

\* the object as an earlier call op(a) left it, r being what the handler
\* yields; the record of a call holds the handler, its arguments and the
\* exception raised
Prepared(op, a, r) ==
  /\ self = r.st.self /\ heap = r.st.heap /\ cfg = r.st.cfg
  /\ call = [op |-> op, a |-> a, err |-> r.err]

\* The object is fresh or as one earlier assembly call (of any variant, with
\* any arguments, returned or failed) left it; args remembers that call.
InitPrep ==
  /\ \E st0 \in FreshStates :
       \/ /\ self = st0.self /\ heap = st0.heap /\ cfg = st0.cfg
          /\ call = [op |-> "new", a |-> <<>>, err |-> None]
       \/ \E a \in BinderArgs : Prepared("_prep_binder", a, prep_binder(st0, a, Files))
       \/ \E a \in FixbbArgs : Prepared("_prep_fixbb", a, prep_fixbb(st0, a, Files))
       \/ \E a \in HallucinationArgs :
            Prepared("_prep_hallucination", a, prep_hallucination(st0, a))
       \/ \E a \in PartialArgs : Prepared("_prep_partial", a, prep_partial(st0, a, Files))
  /\ args = call
  /\ pc = "prepare"
  /\ batch = Idle /\ o = Idle /\ feat = Idle /\ ret = Idle

State == [self |-> self, heap |-> heap, cfg |-> cfg]

\* an assembly call op(a) on the object, r being what the handler yields:
\* the state it leaves and its record
Called(op, a, r) ==
  /\ pc = "prepare"
  /\ self' = r.st.self
  /\ heap' = r.st.heap
  /\ cfg' = r.st.cfg
  /\ call' = [op |-> op, a |-> a, err |-> r.err]
  /\ pc' = "called"
  /\ UNCHANGED <<args, batch, o, feat, ret>>

PrepBinder ==
  \E a \in BinderArgs : Called("_prep_binder", a, prep_binder(State, a, Files))

PrepFixbb ==
  \E a \in FixbbArgs : Called("_prep_fixbb", a, prep_fixbb(State, a, Files))

PrepHallucination ==
  \E a \in HallucinationArgs :
    Called("_prep_hallucination", a, prep_hallucination(State, a))

PrepPartial ==
  \E a \in PartialArgs : Called("_prep_partial", a, prep_partial(State, a, Files))

\* an in-place edit of the live options by the caller, after the call
Edited(h) ==
  /\ pc = "called"
  /\ heap' = h
  /\ UNCHANGED <<pc, args, batch, o, feat, ret, self, cfg, call>>

\* the caller tunes a weight of the live options in place
SetWeight == Edited([heap EXCEPT ![heap[self.opt].weights]["con"] = 25])

\* the caller edits the live template options in place
SetDropout == Edited([heap EXCEPT ![heap[self.opt].template].dropout = 50])

\* the caller edits a top-level entry of the live options in place
SetFixSeq == Edited([heap EXCEPT ![self.opt].fix_seq = ~heap[self.opt].fix_seq])

NextPrep ==
  \/ PrepBinder
  \/ PrepFixbb
  \/ PrepHallucination
  \/ PrepPartial
  \/ SetWeight
  \/ SetDropout
  \/ SetFixSeq

SpecPrep == InitPrep /\ [][NextPrep]_vars

-----------------------------------------------------------------------------
(* Properties checked under SpecPrep                                       *)

\* the residue index row of the prepared inputs
InputIndex == Get(self._inputs, "residue_index").v[1]

\* the structure the recorded call loads
Loaded == prep_pdb(Files[call.a.pdb_filename], call.a.chain, TRUE)

\* C4: when an assembly call returns, the snapshot self._opt equals the live
\* options as the call's last update left them, and every later in-place
\* edit of the live options (top-level, weights or template entry) leaves
\* the snapshot as it was.
C4_SnapshotIsolated ==
  [][(pc' = "called" /\ call'.err = None) =>
       IF pc = "prepare"
       THEN Deref(heap', self'._opt) = Deref(heap', self'.opt)
       ELSE Deref(heap', self'._opt) = Deref(heap, self._opt)]_vars

\* C4 witness: a call has returned and the live options have since been
\* edited at the top level, in the weights and in the template entry, so
\* that the live options differ from the snapshot in all three.
C4_Witness ==
  /\ pc = "called" /\ call.op # "new" /\ call.err = None
  /\ Deref(heap, self.opt).weights # Deref(heap, self._opt).weights
  /\ Deref(heap, self.opt).template # Deref(heap, self._opt).template
  /\ Deref(heap, self.opt).fix_seq # Deref(heap, self._opt).fix_seq

\* C5: an assembly call that fails leaves the owning object's inputs, batch
\* and design options and the runner's configuration as they were before
\* the call.
C5_FailureLeavesNothing ==
  [][(pc = "prepare" /\ pc' = "called" /\ call'.err # None) =>
       /\ self'._inputs = self._inputs
       /\ self'._batch = self._batch
       /\ Deref(heap', self'.opt) = Deref(heap, self.opt)
       /\ cfg' = cfg]_vars

\* C8: after _prep_hallucination with length L and copies C >= 2 the residue
\* index has L*C entries in C blocks of L consecutive integers, and from the
\* last entry of a block to the first of the next the step is 50, or 1 under
\* repeat.
C8_HallucinationBlocks ==
  (call.op = "_prep_hallucination" /\ call.a.copies >= 2) =>
    LET L == call.a.length
        C == call.a.copies
        offset == IF call.a.repeat THEN 1 ELSE 50
    IN /\ call.err = None
       /\ Len(InputIndex) = L * C
       /\ \A i \in 1..(L * C - 1) :
            InputIndex[i + 1] - InputIndex[i] = IF i % L = 0 THEN offset ELSE 1

\* C8 witness: three copies of two residues hallucinated without repeat, on
\* an object an earlier call has prepared.
C8_Witness ==
  /\ pc = "called" /\ args.op # "new"
  /\ call.op = "_prep_hallucination" /\ call.err = None
  /\ call.a.copies = 3 /\ call.a.length = 2 /\ ~call.a.repeat
  /\ InputIndex = <<0, 1, 51, 52, 102, 103>>

\* C9: after binder hallucination (_prep_binder without binder_chain) on a
\* target of target_len residues the inputs have target_len + binder_len
\* residues, the residue index starts with the loaded target's residue index
\* and continues with binder_len consecutive integers from the target's last
\* residue index + 50.
C9_BinderHallucination ==
  (call.op = "_prep_binder" /\ call.err = None /\ call.a.binder_chain = None) =>
    LET target == Loaded.residue_index
        target_len == Len(target)
        binder_len == call.a.binder_len
    IN /\ self._target_len = target_len
       /\ Get(self._inputs, "aatype").shape = <<1, target_len + binder_len>>
       /\ Len(InputIndex) = target_len + binder_len
       /\ \A j \in 1..target_len : InputIndex[j] = target[j]
       /\ \A j \in 1..binder_len :
            InputIndex[target_len + j] = target[target_len] + 50 + (j - 1)

\* C9 witness: a binder of two residues hallucinated against the monomer,
\* whose two retained residues are numbered 7 and 9.
C9_Witness ==
  /\ pc = "called"
  /\ call.op = "_prep_binder" /\ call.err = None /\ call.a.binder_chain = None
  /\ call.a.pdb_filename = "monomer" /\ call.a.binder_len = 2
  /\ InputIndex = <<7, 9, 59, 60>>

\* C10: after _prep_partial returns, whatever the object held before, the
\* batch self._batch is the batch of the structure this call loaded, taken
\* at the rows opt["pos"], and self._wt_aatype its residue types; with pos
\* omitted opt["pos"] is every residue of that structure.
C10_PartialBatch ==
  (pc = "called" /\ call.op = "_prep_partial" /\ call.err = None) =>
    LET pos == Deref(heap, self.opt).pos
        expected == TakeRows(BatchFeat(Loaded.batch), pos)
    IN /\ call.a.pos = None => pos = Arange(Len(Loaded.residue_index))
       /\ \A k \in {"aatype", "all_atom_positions", "all_atom_mask"} :
            Get(self._batch, k).v = Get(expected, k).v
       /\ self._wt_aatype = Get(expected, "aatype").v

=============================================================================
